---- MODULE Spec2Model ----
(***************************************************************************)
(* check_translations.py: every key declared in the reference locale file  *)
(* en.ts must be declared in every other *.ts file of the locales          *)
(* directory.  Strings (file names, file texts, lines, keys) are sequences *)
(* of one-character strings, so that suffix tests, line splitting, the     *)
(* regular expression and the string ordering are computed on characters.  *)
(***************************************************************************)
EXTENDS Integers, Sequences, FiniteSets, TLC

VARIABLES
    fs,              \* the locales directory: file name -> node (kind, text)
    listing,         \* what os.listdir(locales_dir) returns, in its order
    dir_ok,          \* whether os.listdir(locales_dir) succeeds
    pc,              \* position of the script
    en_keys,         \* line 16
    missing_report,  \* line 19: dict, kept in insertion order
    pos,             \* index of the for loop of line 21, then of line 35
    out,             \* lines written to standard output
    opened,          \* file names passed to open() by extract_keys, in order
    run,             \* 1: first invocation, 2: second invocation
    prev_out,        \* standard output of the first invocation
    prev_pc,         \* how the first invocation ended
    xtext,           \* extract_keys alone: the text of the file it is given
    xkeys,           \* extract_keys alone: the set it returns
    xpc              \* extract_keys alone: "call" or "returned"

vars == <<fs, listing, dir_ok, pc, en_keys, missing_report, pos, out, opened,
          run, prev_out, prev_pc, xtext, xkeys, xpc>>

prog_vars == <<pc, en_keys, missing_report, pos, out, opened>>
fs_vars == <<fs, listing, dir_ok>>
run_vars == <<run, prev_out, prev_pc>>
x_vars == <<xtext, xkeys, xpc>>

---------------------------------------------------------------------------
(* Bounds and input pools *)

\* Longest file text given to extract_keys when it is checked alone.
MaxFileLen == 6

\* Most entries the locales directory holds.
MaxEntries == 3

\* Most entries the locales directory holds in the runs checked for
\* termination.
MaxFairEntries == 2

\* Characters of the texts given to extract_keys alone.
XAlphabet == {" ", "\n", ":", "a", "1", "_"}

EN_TS == <<"e", "n", ".", "t", "s">>
FR_TS == <<"f", "r", ".", "t", "s">>
DE_TS == <<"d", "e", ".", "t", "s">>
README_MD == <<"r", "e", "a", "d", "m", "e", ".", "m", "d">>
TS_SUFFIX == <<".", "t", "s">>

\* Names a directory entry can have.
NAMES == {EN_TS, FR_TS, DE_TS, README_MD}

\* Keys the locale files of the directory declare.
KeyPool == {<<"a">>, <<"a", "b">>, <<"b">>}

---------------------------------------------------------------------------
(* Strings *)

Range(s) == {s[i] : i \in 1..Len(s)}

\* The characters used in names and texts.
Chars == {"\n", " ", ".", "1", ":", "_", "a", "b", "d", "e", "f", "m", "n", "r",
          "s", "t"}

\* Their code points (Python compares str by code point).
Ord == [c \in Chars |->
          CASE c = "\n" -> 10 [] c = " " -> 32 [] c = "." -> 46 [] c = "1" -> 49
            [] c = ":" -> 58 [] c = "_" -> 95 [] c = "a" -> 97 [] c = "b" -> 98
            [] c = "d" -> 100 [] c = "e" -> 101 [] c = "f" -> 102
            [] c = "m" -> 109 [] c = "n" -> 110 [] c = "r" -> 114
            [] c = "s" -> 115 [] c = "t" -> 116]

\* str.endswith
endswith(s, suffix) ==
    /\ Len(s) >= Len(suffix)
    /\ SubSeq(s, Len(s) - Len(suffix) + 1, Len(s)) = suffix

\* a < b on str: the first differing character decides, a proper prefix is less
RECURSIVE str_lt(_, _)
str_lt(a, b) ==
    IF a = <<>> THEN b # <<>>
    ELSE IF b = <<>> THEN FALSE
    ELSE IF Head(a) # Head(b) THEN Ord[Head(a)] < Ord[Head(b)]
    ELSE str_lt(Tail(a), Tail(b))

\* regular expression classes \s and \w
IsSpace(c) == c \in {" ", "\n"}
IsWord(c) == c \in {"a", "b", "1", "_"}

---------------------------------------------------------------------------
(* extract_keys *)

\* Iterating a text file yields its lines, each with its "\n" when it has one.
RECURSIVE LineEnd(_, _)
LineEnd(text, i) ==
    IF i >= Len(text) \/ text[i] = "\n" THEN i ELSE LineEnd(text, i + 1)

\* The lines of a text file, as iterating the file yields them.
readlines[text \in Seq(Chars)] ==
    IF text = <<>> THEN <<>>
    ELSE LET n == LineEnd(text, 1)
         IN  <<SubSeq(text, 1, n)>> \o readlines[SubSeq(text, n + 1, Len(text))]

\* First index >= i of line that holds no \s character (Len(line) + 1 if none).
RECURSIVE SkipSpace(_, _)
SkipSpace(line, i) ==
    IF i <= Len(line) /\ IsSpace(line[i]) THEN SkipSpace(line, i + 1) ELSE i

\* First index >= i of line that holds no \w character (Len(line) + 1 if none).
RECURSIVE SkipWord(_, _)
SkipWord(line, i) ==
    IF i <= Len(line) /\ IsWord(line[i]) THEN SkipWord(line, i + 1) ELSE i

\* re.search(r'^\s*(\w+):', line): {} for None, else {match.group(1)}.  \s and
\* \w share no character and ":" is in neither class, so the greedy runs are
\* the only way the pattern can match.
\* Variant: the pattern without its leading \s*, r'^(\w+):'.
re_search_key_no_indent(line) ==
    LET j == SkipWord(line, 1)
    IN  IF j > 1 /\ j <= Len(line) /\ line[j] = ":"
        THEN {SubSeq(line, 1, j - 1)}
        ELSE {}

re_search_key(line) ==
    LET i == SkipSpace(line, 1)
        j == SkipWord(line, i)
    IN  IF j > i /\ j <= Len(line) /\ line[j] = ":"
        THEN {SubSeq(line, i, j - 1)}
        ELSE {}

\* lines 10-13: the loop over the lines, keys being the set built so far
scan_lines[lines \in Seq(Seq(Chars)), keys \in SUBSET Seq(Chars)] ==
    IF lines = <<>> THEN keys
    ELSE scan_lines[Tail(lines), keys \cup re_search_key(Head(lines))]

\* lines 7-14, for a file that opens and decodes
extract_keys(text) == scan_lines[readlines[text], {}]

---------------------------------------------------------------------------
(* The directory the script runs on *)

\* The keys in one order that is not the sorted one.
KEYS_DESC == <<<<"b">>, <<"a", "b">>, <<"a">>>>

\* Declarations of the reference file: any distinct keys, in any order.
RefKeyLists ==
    {ks \in UNION {[1..n -> KeyPool] : n \in 0..Cardinality(KeyPool)} :
        \A i, j \in 1..Len(ks) : i # j => ks[i] # ks[j]}

\* Declarations of another locale file: any set of keys, in the order above.
OtherKeyLists == {SelectSeq(KEYS_DESC, LAMBDA k : k \in S) : S \in SUBSET KeyPool}

\* The text of a locale file declaring the keys of ks, one per line.
RECURSIVE TextOf(_)
TextOf(ks) ==
    IF ks = <<>> THEN <<>>
    ELSE <<" ">> \o Head(ks) \o <<":", " ", "1", "\n">> \o TextOf(Tail(ks))


Absent == [kind |-> "absent", text |-> <<>>]
Subdir == [kind |-> "dir", text |-> <<>>]
NoRead == [kind |-> "noread", text |-> <<>>]
File(t) == [kind |-> "file", text |-> t]

\* What a name of the directory can be: nothing, a subdirectory, a file that
\* cannot be read (permissions, bytes that are not UTF-8), a readable file.
NodesOf(name) ==
    IF name = EN_TS
    THEN {Absent, Subdir, NoRead} \cup {File(TextOf(ks)) : ks \in RefKeyLists}
    ELSE IF name \in {FR_TS, DE_TS}
    THEN {Absent, Subdir, NoRead} \cup {File(TextOf(ks)) : ks \in OtherKeyLists}
    ELSE {Absent, Subdir, File(TextOf(<<<<"a">>>>))}

Present(f) == {n \in NAMES : f[n].kind # "absent"}

\* Every order in which the elements of set S can be enumerated.
Orders(S) ==
    {s \in [1..Cardinality(S) -> S] : \A i, j \in 1..Cardinality(S) : i # j => s[i] # s[j]}

---------------------------------------------------------------------------
(* Standard output *)

FoundLine(n) == [kind |-> "found", n |-> n, text |-> <<>>]
AllGoodLine == [kind |-> "allgood", n |-> 0, text |-> <<>>]
BlankLine == [kind |-> "blank", n |-> 0, text |-> <<>>]
HeaderLine(filename) == [kind |-> "header", n |-> 0, text |-> filename]
KeyLine(key) == [kind |-> "key", n |-> 0, text |-> key]

---------------------------------------------------------------------------
(* The script *)

\* open(file_path) succeeds and the file decodes: only for a readable file.
can_open(name) == fs[name].kind = "file"

\* Variant: line 22 without its test filename == 'en.ts'.
IsCandidateNoRefTest(filename) == endswith(filename, TS_SUFFIX)

\* line 22, negated: the entries the loop does not skip
IsCandidate(filename) == ~(filename = EN_TS \/ ~endswith(filename, TS_SUFFIX))

\* Variant: the difference taken the other way round, keys - en_keys.
MissingSwapped(reference, keys) == keys \ reference

\* line 28: en_keys - keys
Missing(reference, keys) == reference \ keys

\* Variant: a report that puts the newest file first.
dict_set_front(report, filename, missing) ==
    <<[name |-> filename, missing |-> missing]>> \o report

\* line 30: missing_report[filename] = missing (a dict keeps insertion order)
dict_set(report, filename, missing) ==
    IF \E i \in 1..Len(report) : report[i].name = filename
    THEN [i \in 1..Len(report) |->
            IF report[i].name = filename
            THEN [name |-> filename, missing |-> missing]
            ELSE report[i]]
    ELSE Append(report, [name |-> filename, missing |-> missing])

\* Variant: the success message printed whatever the report holds.
report_empty_always(report) == TRUE

\* line 32: not missing_report
report_empty(report) == report = <<>>

\* line 37: sorted(missing), on the order in which the set is iterated
RECURSIVE insort(_, _)
insort(s, k) ==
    IF s = <<>> THEN <<k>>
    ELSE IF str_lt(k, Head(s)) THEN <<k>> \o s
    ELSE <<Head(s)>> \o insort(Tail(s), k)

\* Variant: sorted(missing, reverse=True).
RECURSIVE insort_desc(_, _)
insort_desc(s, k) ==
    IF s = <<>> THEN <<k>>
    ELSE IF str_lt(Head(s), k) THEN <<k>> \o s
    ELSE <<Head(s)>> \o insort_desc(Tail(s), k)

RECURSIVE sorted_reverse(_)
sorted_reverse(seq) ==
    IF seq = <<>> THEN <<>> ELSE insort_desc(sorted_reverse(Tail(seq)), Head(seq))

RECURSIVE sorted(_)
sorted(seq) ==
    IF seq = <<>> THEN <<>> ELSE insort(sorted(Tail(seq)), Head(seq))

\* Variant: "for key in missing", without sorted.
KeyLinesUnsorted(order) == [i \in 1..Len(order) |-> KeyLine(order[i])]

\* lines 37-38: what one section prints for its keys.  A set of str is iterated
\* in an order that depends on the interpreter's hash seed: any order.
KeyLines(order) == [i \in 1..Len(order) |-> KeyLine(sorted(order)[i])]

\* Variant: a non-zero exit status when keys are missing.
exit_status_strict(report) == IF report = <<>> THEN "done" ELSE "error"

\* The script ends by running off its last line: exit status 0.
exit_status(report) == "done"

\* line 16, open succeeds
ExtractReference ==
    /\ pc = "start"
    /\ can_open(EN_TS)
    /\ opened' = Append(opened, EN_TS)
    /\ en_keys' = extract_keys(fs[EN_TS].text)
    /\ pc' = "found"
    /\ UNCHANGED <<missing_report, pos, out, fs_vars, run_vars, x_vars>>

\* line 16, open or decoding raises: the script ends with a traceback
ReferenceFails ==
    /\ pc = "start"
    /\ ~can_open(EN_TS)
    /\ opened' = Append(opened, EN_TS)
    /\ pc' = "error"
    /\ UNCHANGED <<en_keys, missing_report, pos, out, fs_vars, run_vars, x_vars>>

\* lines 17-19
PrintFound ==
    /\ pc = "found"
    /\ out' = Append(out, FoundLine(Cardinality(en_keys)))
    /\ missing_report' = <<>>
    /\ pc' = "listdir"
    /\ UNCHANGED <<en_keys, pos, opened, fs_vars, run_vars, x_vars>>

\* line 21: os.listdir(locales_dir)
ListDir ==
    /\ pc = "listdir"
    /\ IF dir_ok THEN pc' = "loop" /\ pos' = 1
                 ELSE pc' = "error" /\ pos' = pos
    /\ UNCHANGED <<en_keys, missing_report, out, opened, fs_vars, run_vars, x_vars>>

\* lines 22-23: continue
LoopSkip ==
    /\ pc = "loop"
    /\ pos <= Len(listing)
    /\ ~IsCandidate(listing[pos])
    /\ pos' = pos + 1
    /\ UNCHANGED <<pc, en_keys, missing_report, out, opened, fs_vars, run_vars, x_vars>>

\* lines 25-30
LoopExtract ==
    /\ pc = "loop"
    /\ pos <= Len(listing)
    /\ IsCandidate(listing[pos])
    /\ can_open(listing[pos])
    /\ opened' = Append(opened, listing[pos])
    /\ LET keys == extract_keys(fs[listing[pos]].text)
           missing == Missing(en_keys, keys)
       IN  missing_report' =
             IF missing # {} THEN dict_set(missing_report, listing[pos], missing)
                             ELSE missing_report
    /\ pos' = pos + 1
    /\ UNCHANGED <<pc, en_keys, out, fs_vars, run_vars, x_vars>>

\* Variant: the failure caught and the file skipped.
LoopFailsSkipped ==
    /\ pc = "loop"
    /\ pos <= Len(listing)
    /\ IsCandidate(listing[pos])
    /\ ~can_open(listing[pos])
    /\ opened' = Append(opened, listing[pos])
    /\ pos' = pos + 1
    /\ UNCHANGED <<pc, en_keys, missing_report, out, fs_vars, run_vars, x_vars>>

\* line 26 raises: nothing catches it, the script ends with a traceback
LoopFails ==
    /\ pc = "loop"
    /\ pos <= Len(listing)
    /\ IsCandidate(listing[pos])
    /\ ~can_open(listing[pos])
    /\ opened' = Append(opened, listing[pos])
    /\ pc' = "error"
    /\ UNCHANGED <<en_keys, missing_report, pos, out, fs_vars, run_vars, x_vars>>

\* the for loop of line 21 is exhausted
LoopEnd ==
    /\ pc = "loop"
    /\ pos > Len(listing)
    /\ pc' = "render"
    /\ pos' = 1
    /\ UNCHANGED <<en_keys, missing_report, out, opened, fs_vars, run_vars, x_vars>>

\* lines 32-33
RenderAllGood ==
    /\ pc = "render"
    /\ report_empty(missing_report)
    /\ out' = Append(out, AllGoodLine)
    /\ pc' = exit_status(missing_report)
    /\ UNCHANGED <<en_keys, missing_report, pos, opened, fs_vars, run_vars, x_vars>>

\* lines 35-38, one iteration of the outer loop
RenderSection ==
    /\ pc = "render"
    /\ ~report_empty(missing_report)
    /\ pos <= Len(missing_report)
    /\ \E order \in Orders(missing_report[pos].missing) :
          out' = out \o <<BlankLine, HeaderLine(missing_report[pos].name)>>
                     \o KeyLines(order)
    /\ pos' = pos + 1
    /\ pc' = IF pos = Len(missing_report) THEN exit_status(missing_report) ELSE pc
    /\ UNCHANGED <<en_keys, missing_report, opened, fs_vars, run_vars, x_vars>>

\* The tool is invoked a second time on the same directory: a new process,
\* whose module-level names are bound afresh.
RunAgain ==
    /\ pc \in {"done", "error"}
    /\ run = 1
    /\ run' = 2
    /\ prev_out' = out
    /\ prev_pc' = pc
    /\ pc' = "start"
    /\ en_keys' = {}
    /\ missing_report' = <<>>
    /\ pos' = 1
    /\ out' = <<>>
    /\ opened' = <<>>
    /\ UNCHANGED <<fs_vars, x_vars>>

\* extract_keys on its own, for a readable file with text xtext
CallExtractKeys ==
    /\ xpc = "call"
    /\ xkeys' = extract_keys(xtext)
    /\ xpc' = "returned"
    /\ UNCHANGED <<fs_vars, prog_vars, run_vars, xtext>>

---------------------------------------------------------------------------
(* Specifications *)

InitProgram ==
    /\ pc = "start"
    /\ en_keys = {}
    /\ missing_report = <<>>
    /\ pos = 1
    /\ out = <<>>
    /\ opened = <<>>
    /\ run = 1
    /\ prev_out = <<>>
    /\ prev_pc = "none"

\* Any directory of at most MaxEntries entries, listed in any order.  When the
\* directory cannot be listed only en.ts, which is opened by path, matters.
Init ==
    /\ InitProgram
    /\ dir_ok \in BOOLEAN
    /\ \E en \in NodesOf(EN_TS), fr \in NodesOf(FR_TS),
          de \in NodesOf(DE_TS), md \in NodesOf(README_MD) :
          fs = (EN_TS :> en) @@ (FR_TS :> fr) @@ (DE_TS :> de) @@ (README_MD :> md)
    /\ Cardinality(Present(fs)) <= MaxEntries
    /\ ~dir_ok => Present(fs) \subseteq {EN_TS}
    /\ listing \in Orders(Present(fs))
    /\ xtext = <<>>
    /\ xkeys = {}
    /\ xpc = "idle"

RunNext ==
    \/ ExtractReference
    \/ ReferenceFails
    \/ PrintFound
    \/ ListDir
    \/ LoopSkip
    \/ LoopExtract
    \/ LoopFails
    \/ LoopEnd
    \/ RenderAllGood
    \/ RenderSection

Next == RunNext

\* One invocation of the script.
Spec == Init /\ [][Next]_vars

\* The tool has not been invoked yet: no directory is given.
BootInit ==
    /\ pc = "boot"
    /\ en_keys = {}
    /\ missing_report = <<>>
    /\ pos = 1
    /\ out = <<>>
    /\ opened = <<>>
    /\ run = 1
    /\ prev_out = <<>>
    /\ prev_pc = "none"
    /\ dir_ok = TRUE
    /\ fs = [n \in NAMES |-> Absent]
    /\ listing = <<>>
    /\ xtext = <<>>
    /\ xkeys = {}
    /\ xpc = "idle"

\* The tool is invoked in a directory: any directory of at most MaxFairEntries
\* entries, listed in any order.
Invoke ==
    /\ pc = "boot"
    /\ pc' = "start"
    /\ dir_ok' \in BOOLEAN
    /\ \E en \in NodesOf(EN_TS), fr \in NodesOf(FR_TS),
          de \in NodesOf(DE_TS), md \in NodesOf(README_MD) :
          fs' = (EN_TS :> en) @@ (FR_TS :> fr) @@ (DE_TS :> de) @@ (README_MD :> md)
    /\ Cardinality(Present(fs')) <= MaxFairEntries
    /\ ~dir_ok' => Present(fs') \subseteq {EN_TS}
    /\ listing' \in Orders(Present(fs'))
    /\ UNCHANGED <<en_keys, missing_report, pos, out, opened, run_vars, x_vars>>

FairNext == Invoke \/ RunNext

\* One invocation; the interpreter keeps executing until the script ends.
FairSpec == BootInit /\ [][FairNext]_vars /\ WF_vars(RunNext)

TwoRunNext == RunNext \/ RunAgain

\* Two invocations, one after the other, on one directory.
TwoRunSpec == Init /\ [][TwoRunNext]_vars

\* extract_keys applied to every text of at most MaxFileLen characters.
ExtractInit ==
    /\ xtext \in UNION {[1..n -> XAlphabet] : n \in 0..MaxFileLen}
    /\ xkeys = {}
    /\ xpc = "call"
    /\ pc = "idle"
    /\ en_keys = {}
    /\ missing_report = <<>>
    /\ pos = 1
    /\ out = <<>>
    /\ opened = <<>>
    /\ run = 1
    /\ prev_out = <<>>
    /\ prev_pc = "none"
    /\ dir_ok = TRUE
    /\ fs = [n \in NAMES |-> Absent]
    /\ listing = <<>>

ExtractNext == CallExtractKeys

ExtractSpec == ExtractInit /\ [][ExtractNext]_vars

---------------------------------------------------------------------------
(* Vocabulary of the properties, stated on the directory and on the output *)

\* name is some prefix followed by ".ts"
HasTsSuffix(name) == \E k \in 0..Len(name) : SubSeq(name, 1, k) \o TS_SUFFIX = name

\* The candidate files, in the order of the directory enumeration.
Candidates == SelectSeq(listing, LAMBDA n : HasTsSuffix(n) /\ n # EN_TS)

RefKeys == extract_keys(fs[EN_TS].text)
KeysOf(f) == extract_keys(fs[f].text)

\* Positions of the section headers in the output.
Headers == {i \in 1..Len(out) : out[i].kind = "header"}

\* The files named by the section headers, in output order.
HeaderFiles ==
    LET hs == SelectSeq(out, LAMBDA l : l.kind = "header")
    IN  [i \in 1..Len(hs) |-> hs[i].text]

\* The keys listed after the header at position h, up to the next line that
\* is not a key line.
RECURSIVE SectionKeys(_)
SectionKeys(h) ==
    IF h + 1 <= Len(out) /\ out[h + 1].kind = "key"
    THEN <<out[h + 1].text>> \o SectionKeys(h + 1)
    ELSE <<>>

\* a before b in lexicographic order of code points
LexLess(a, b) ==
    \E i \in 1..(Len(a) + 1) :
        /\ i <= Len(b)
        /\ \A j \in 1..(i - 1) : a[j] = b[j]
        /\ (i = Len(a) + 1 \/ Ord[a[i]] < Ord[b[i]])

IsPrefix(s, t) == Len(s) <= Len(t) /\ SubSeq(t, 1, Len(s)) = s

---------------------------------------------------------------------------
(* C1 *)

\* C1: after a run in which every file was read, a candidate file has a section
\* in the report exactly when the reference declares a key the file lacks, and
\* the keys of that section are exactly the reference keys the file lacks.
C1_ReportIsExactDifference ==
    pc = "done" =>
        \A f \in Range(Candidates) :
            LET want == RefKeys \ KeysOf(f)
                hs == {h \in Headers : out[h].text = f}
            IN  /\ (hs # {}) <=> (want # {})
                /\ \A h \in hs : Range(SectionKeys(h)) = want

\* A finished run with a file that lacks a reference key, has another one and
\* declares a key of its own, beside a file that lacks nothing.
C1_Witness ==
    /\ pc = "done"
    /\ \E f, g \in Range(Candidates) :
          /\ RefKeys \ KeysOf(f) # {}
          /\ RefKeys \cap KeysOf(f) # {}
          /\ KeysOf(f) \ RefKeys # {}
          /\ RefKeys \subseteq KeysOf(g)
          /\ \E h \in Headers : out[h].text = f

---------------------------------------------------------------------------
(* C2 *)

\* Every candidate file is readable and declares every reference key.
AllSuperset ==
    \A f \in Range(Candidates) : fs[f].kind = "file" /\ RefKeys \subseteq KeysOf(f)

\* Some readable candidate file lacks a key of the readable reference file.
SomeMissing ==
    /\ fs[EN_TS].kind = "file"
    /\ \E f \in Range(Candidates) :
          fs[f].kind = "file" /\ ~(RefKeys \subseteq KeysOf(f))

\* C2: when every candidate file declares every reference key (also when there
\* is no candidate file), the whole output of the run is the line "Found N keys
\* in en.ts", N the number of reference keys, then the line "All good! No
\* missing keys found."; when a candidate file lacks a key, the "All good!"
\* line is never written.
C2_AllGoodIffNothingMissing ==
    /\ (pc = "done" /\ AllSuperset) =>
            out = <<FoundLine(Cardinality(RefKeys)), AllGoodLine>>
    /\ (\E i \in 1..Len(out) : out[i].kind = "allgood") => ~SomeMissing

\* A finished run over two candidate files that both declare the two or more
\* keys of the reference.
C2_Witness ==
    /\ pc = "done"
    /\ AllSuperset
    /\ Len(Candidates) = 2
    /\ Cardinality(RefKeys) >= 2
    /\ out = <<FoundLine(Cardinality(RefKeys)), AllGoodLine>>

---------------------------------------------------------------------------
(* C3 *)

\* The lines of a text: the stretches that start at the start of the text or
\* after a "\n", hold no "\n" before their last character, and end with a
\* "\n" or with the text.
LinesOf(text) ==
    {SubSeq(text, i, j) : <<i, j>> \in
        {p \in (1..Len(text)) \X (1..Len(text)) :
            /\ p[1] <= p[2]
            /\ (p[1] = 1 \/ text[p[1] - 1] = "\n")
            /\ (p[2] = Len(text) \/ text[p[2]] = "\n")
            /\ \A k \in p[1]..(p[2] - 1) : text[k] # "\n"}}

\* The identifiers k such that line is n whitespace characters (n >= 0), then
\* the m word characters of k (m >= 1), then a colon.
DeclaredBy(line) ==
    {SubSeq(line, p[1] + 1, p[1] + p[2]) : p \in
        {q \in (0..Len(line)) \X (1..Len(line)) :
            /\ q[1] + q[2] + 1 <= Len(line)
            /\ \A i \in 1..q[1] : IsSpace(line[i])
            /\ \A i \in (q[1] + 1)..(q[1] + q[2]) : IsWord(line[i])
            /\ line[q[1] + q[2] + 1] = ":"}}

\* C3: extract_keys returns exactly the identifiers k for which some line of
\* the file is whitespace (possibly none), then the non-empty run of word
\* characters k, then at once a colon; a line contributes at most one key, a
\* line without such a prefix contributes none, a run that starts with a digit
\* counts, and one identifier at several depths of indentation is one entry.
C3_ExtractKeysIsDeclaredKeys ==
    xpc = "returned" =>
        /\ xkeys = UNION {DeclaredBy(l) : l \in LinesOf(xtext)}
        /\ \A l \in LinesOf(xtext) : Cardinality(DeclaredBy(l)) <= 1
        /\ \A l \in Range(readlines[xtext]) : Cardinality(re_search_key(l)) <= 1

\* extract_keys has returned one key for a text of two lines that declare it at
\* two depths of indentation.
C3_Witness ==
    /\ xpc = "returned"
    /\ Cardinality(xkeys) = 1
    /\ \E l1, l2 \in LinesOf(xtext) :
          /\ l1 # l2
          /\ IsSpace(l1[1])
          /\ ~IsSpace(l2[1])
          /\ DeclaredBy(l1) = xkeys
          /\ DeclaredBy(l2) = xkeys

---------------------------------------------------------------------------
(* C4 *)

\* The files key extraction is performed on in a run that reads them all.
ExpectedOpens == <<EN_TS>> \o Candidates

\* C4: in one run key extraction is performed on en.ts, once and before any
\* candidate, and on every entry whose name ends with ".ts" and is not
\* "en.ts", and on nothing else; en.ts is never a candidate nor named in a
\* "Missing keys in" header, and an entry with another suffix is never opened
\* or reported.
C4_ExtractsReferenceThenCandidates ==
    /\ IsPrefix(opened, ExpectedOpens)
    /\ pc = "done" => opened = ExpectedOpens
    /\ \A h \in Headers : out[h].text # EN_TS /\ HasTsSuffix(out[h].text)

\* A finished run over a directory that lists a candidate, then en.ts, then a
\* readable readme.md whose line matches the key pattern; the candidate lacks
\* a key.
C4_Witness ==
    /\ pc = "done"
    /\ Len(listing) = 3
    /\ listing[2] = EN_TS
    /\ listing[3] = README_MD
    /\ fs[README_MD].kind = "file"
    /\ extract_keys(fs[README_MD].text) # {}
    /\ opened = <<EN_TS, listing[1]>>
    /\ Headers # {}

---------------------------------------------------------------------------
(* C5 *)

\* C5: in every section of the report the keys the file lacks are printed one
\* per line in strictly ascending lexicographic order, each exactly once,
\* whatever the order in which the files declare them.
C5_SectionKeysAscending ==
    \A h \in Headers :
        LET ks == SectionKeys(h)
        IN  /\ \A i, j \in 1..Len(ks) : i < j => LexLess(ks[i], ks[j])
            /\ Range(ks) = RefKeys \ KeysOf(out[h].text)

\* A section of three keys, of which one is a proper prefix of another, for a
\* reference file that declares them in descending order.
C5_Witness ==
    /\ fs[EN_TS].text = TextOf(KEYS_DESC)
    /\ \E h \in Headers : Len(SectionKeys(h)) = 3

---------------------------------------------------------------------------
(* C6 *)

\* The run has aborted because extract_keys raised on the last file it opened.
ExtractionFailed ==
    /\ pc = "error"
    /\ opened # <<>>
    /\ fs[opened[Len(opened)]].kind # "file"

\* No file that cannot be read is passed over: it is the last file opened, and
\* the run has aborted on it.
NeverSkipsFailure ==
    \A i \in 1..Len(opened) :
        fs[opened[i]].kind # "file" => i = Len(opened) /\ pc = "error"

\* C6 as amended: a failing extraction aborts the run at the failing file,
\* which is not skipped, and no later candidate is processed; the aborted run
\* has written no "Missing keys in" and no "All good!" line.  It has written
\* nothing at all when the reference file failed, and exactly the "Found" line
\* when a candidate failed.
C6_AbortKeepsOnlyFoundLine ==
    /\ NeverSkipsFailure
    /\ IsPrefix(opened, ExpectedOpens)
    /\ pc = "error" => \A i \in 1..Len(out) : out[i].kind = "found"
    /\ ExtractionFailed =>
          IF Len(opened) = 1
          THEN out = <<>>
          ELSE out = <<FoundLine(Cardinality(RefKeys))>>

\* C6 as stated: a failing extraction aborts the run at the failing file, and
\* the aborted run has written no line at all, not even the "Found" line.
C6_AbortWritesNothing ==
    /\ NeverSkipsFailure
    /\ IsPrefix(opened, ExpectedOpens)
    /\ ExtractionFailed => out = <<>>

\* The run has aborted on its second candidate, after the first one was
\* recorded as lacking keys; a third entry follows.
C6_Witness ==
    /\ ExtractionFailed
    /\ Len(opened) = 3
    /\ missing_report # <<>>
    /\ out = <<FoundLine(Cardinality(RefKeys))>>

---------------------------------------------------------------------------
(* C7 *)

\* C7: a directory entry that is a subdirectory is skipped by the enumeration
\* whatever its name, also when its name ends with ".ts": it is never opened
\* for key extraction (the first file opened is the reference, opened by its
\* path before the enumeration), so it never aborts the run.
C7_SubdirectoriesAreSkipped ==
    \A i \in 2..Len(opened) : fs[opened[i]].kind # "dir"

---------------------------------------------------------------------------
(* C8 *)

\* The directory can be listed, en.ts is a readable file, and every other
\* entry named *.ts can be opened and read as a file.
AllReadable ==
    /\ dir_ok
    /\ fs[EN_TS].kind = "file"
    /\ \A n \in Range(listing) : HasTsSuffix(n) => fs[n].kind = "file"

\* C8: a run in which the directory and all ".ts" files are readable ends
\* normally after finitely many steps and never in the error state, whether or
\* not a candidate file lacks keys.
C8_ReadableRunEndsNormally ==
    /\ (pc = "start" /\ AllReadable) ~> (pc = "done")
    /\ [](AllReadable => pc # "error")

\* A run over readable files has ended normally with a report of one section.
C8_Witness ==
    /\ AllReadable
    /\ pc = "done"
    /\ Len(missing_report) = 1
    /\ Len(HeaderFiles) = 1

---------------------------------------------------------------------------
(* C9 *)

\* C9: the second of two runs over the same directory contents, enumerated in
\* the same order, ends as the first did and has written the same lines.
C9_SecondRunRepeatsFirst ==
    (run = 2 /\ pc \in {"done", "error"}) => (out = prev_out /\ pc = prev_pc)

\* The second run has finished a report with a section of three keys.
C9_Witness ==
    /\ run = 2
    /\ pc = "done"
    /\ \E h \in Headers : Len(SectionKeys(h)) = 3

---------------------------------------------------------------------------
(* C10 *)

\* The candidates that lack a reference key, in enumeration order.
ExpectedSections == SelectSeq(Candidates, LAMBDA f : RefKeys \ KeysOf(f) # {})

\* C10: the sections of the report come in the order in which the directory
\* enumeration returned their files, one section for each candidate that lacks
\* a key, and a section is written only after every candidate was extracted.
C10_SectionsInEnumerationOrder ==
    /\ pc = "done" => HeaderFiles = ExpectedSections
    /\ Headers # {} => IsPrefix(HeaderFiles, ExpectedSections)
    /\ Headers # {} => opened = ExpectedOpens

\* A finished report whose sections are for fr.ts, then de.ts: the order of
\* the enumeration, which is not the sorted one.
C10_Witness ==
    /\ pc = "done"
    /\ Candidates = <<FR_TS, DE_TS>>
    /\ HeaderFiles = <<FR_TS, DE_TS>>

====
